---- MODULE Spec2Model ----
(***************************************************************************)
(* NexusOps agent execution engine: the LangGraph state machine of         *)
(* graph_orchestrator.py (reason_node, should_continue, tool_node,         *)
(* build_graph), the tools and CLI loop of main.py, the approval gate of   *)
(* slack_approver.py, the GitHub provider of mcp_tools/github_server.py    *)
(* and the HTTP entry point of api.py.                                     *)
(*                                                                         *)
(* Text is modelled as a sequence of one-character strings so that         *)
(* lower(), strip() and the `in` substring test are computed, not assumed. *)
(***************************************************************************)
EXTENDS Integers, Sequences, FiniteSets, TLC

VARIABLES
    pc,            \* position of the running program
    entry,         \* which entry point started the current run: "none", "main", "api"
    thread,        \* thread_id of the current api request ("" for a CLI run)
    messages,      \* AgentState.messages of the current graph run
    route,         \* last value returned by should_continue
    tool_results,  \* tool_node's local list of ToolMessages
    ti,            \* tool_node's loop position in last_message.tool_calls
    approved,      \* create_pull_request's local `approved`
    gate,          \* state of the gated call: "none", "pending", "authorized", "denied", "error"
    prompts,       \* iterations of await_validation's prompt loop in this wait
    answer,        \* the input that ended the last approval wait
    invoked,       \* per call id: invocations of its backend executor in this run
    alerts,        \* outcomes of dispatch_alert in this run
    webhook,       \* SlackApprovalGate._webhook_url is configured
    checkpoints,   \* what the compiled graph persisted per thread_id
    response,      \* what the caller of the last finished run received
    prevGate,      \* gate state at the end of the previous CLI run
    cancelRequested, \* asyncio.run's SIGINT handler has asked to cancel the main task
    inflight       \* the api requests whose handler has started and not yet answered

vars == <<pc, entry, thread, messages, route, tool_results, ti, approved, gate,
          prompts, answer, invoked, alerts, webhook, checkpoints, response, prevGate,
          cancelRequested, inflight>>

(***************************************************************************)
(* Bounds                                                                  *)
(***************************************************************************)
MaxPrompts == 2     \* prompt iterations modelled in one approval wait
MaxBatch == 3       \* longest batch handed to the router in SpecRouter
MaxInFlight == 2    \* api requests in progress at the same time

(***************************************************************************)
(* Text helpers                                                            *)
(***************************************************************************)
Upper == <<"A","B","C","D","E","F","G","H","I","J","K","L","M",
           "N","O","P","Q","R","S","T","U","V","W","X","Y","Z">>
LowerTab == <<"a","b","c","d","e","f","g","h","i","j","k","l","m",
              "n","o","p","q","r","s","t","u","v","w","x","y","z">>

\* str.lower() on one character
LowerChar(c) ==
    IF \E i \in 1..26 : Upper[i] = c
    THEN LowerTab[CHOOSE i \in 1..26 : Upper[i] = c]
    ELSE c

\* str.lower()
Lower(s) == [i \in 1..Len(s) |-> LowerChar(s[i])]

RECURSIVE LStrip(_)
LStrip(s) == IF s # <<>> /\ s[1] = " " THEN LStrip(Tail(s)) ELSE s

RECURSIVE RStrip(_)
RStrip(s) ==
    IF s # <<>> /\ s[Len(s)] = " " THEN RStrip(SubSeq(s, 1, Len(s) - 1)) ELSE s

\* str.strip()
Strip(s) == RStrip(LStrip(s))

\* `sub in s` for strings
Contains(s, sub) ==
    \E i \in 1..(Len(s) - Len(sub) + 1) : SubSeq(s, i, i + Len(sub) - 1) = sub

(***************************************************************************)
(* Words the code compares text against                                    *)
(***************************************************************************)
W_log == <<"l","o","g">>
W_error == <<"e","r","r","o","r">>
W_oom == <<"o","o","m">>
W_fix == <<"f","i","x">>
W_pr == <<"p","r">>
W_exit == <<"e","x","i","t">>
W_quit == <<"q","u","i","t">>
W_confirm == <<"c","o","n","f","i","r","m">>
W_c == <<"c">>
W_yes == <<"y","e","s">>
W_abort == <<"a","b","o","r","t">>
W_a == <<"a">>
W_no == <<"n","o">>

\* main.py's exit words
ExitWords == {W_exit, W_quit}
\* await_validation's accepted answers
ConfirmWords == {W_confirm, W_c, W_yes}
AbortWords == {W_abort, W_a, W_no}

(***************************************************************************)
(* Inputs                                                                  *)
(***************************************************************************)
Q_oom == <<"o","o","m"," ","o","n"," ","b","a","c","k","e","n","d","-","a","p","i">>
Q_fix == <<"f","i","x">>
Q_PR == <<"P","R">>
Q_hi == <<"h","i">>
Q_logfix == <<"l","o","g"," ","f","i","x">>
Q_problem == <<"p","r","o","b","l","e","m">>
Q_yes_sp == <<" ","y","e","s"," ">>
Q_maybe == <<"m","a","y","b","e">>
Q_Confirm == <<"C","o","n","f","i","r","m">>
Q_Quit == <<"Q","u","i","t">>

\* what the operator types at the "User:" prompt or posts as query.text
Queries == {Q_oom, Q_fix, Q_PR, Q_hi, Q_logfix, Q_problem, <<>>}
            \cup ConfirmWords \cup AbortWords

\* what the operator types at the "Authorize execution?" prompt
GateTexts == ConfirmWords \cup AbortWords \cup {Q_yes_sp, Q_Confirm, Q_maybe, Q_fix, <<>>}

\* thread_id values of api requests
ThreadIds == {"t1", "t2"}

\* query.text of api requests
ApiTexts == {Q_fix, Q_hi, <<>>}

(***************************************************************************)
(* Messages (langchain_core.messages) and tool calls                       *)
(***************************************************************************)
END == "__end__"

HumanMessage(t) ==
    [type |-> "human", text |-> t, content |-> "query", tool_calls |-> <<>>,
     tool_call_id |-> "", name |-> ""]

\* api.py passes the pair ("user", text); operator.add keeps it a tuple
TupleMessage(t) ==
    [type |-> "tuple", text |-> t, content |-> "query", tool_calls |-> <<>>,
     tool_call_id |-> "", name |-> ""]

AIMessage(c, calls) ==
    [type |-> "ai", text |-> <<>>, content |-> c, tool_calls |-> calls,
     tool_call_id |-> "", name |-> ""]

\* a ToolMessage built without tool_call_id=tool_id
ToolMessage_NoCallId(id, c, n) ==
    [type |-> "tool", text |-> <<>>, content |-> c, tool_calls |-> <<>>,
     tool_call_id |-> "", name |-> n]

\* ToolMessage(tool_call_id=tool_id, content=str(res), name=tool_name)
ToolMessage(id, c, n) ==
    [type |-> "tool", text |-> <<>>, content |-> c, tool_calls |-> <<>>,
     tool_call_id |-> id, name |-> n]

ToolCall(n, id, a) == [name |-> n, id |-> id, args |-> a]

\* hasattr(m, 'tool_calls') and m.tool_calls
HasToolCalls(m) == m.type = "ai" /\ m.tool_calls # <<>>

CallIds == {"call_logs", "call_search", "call_pr"}

\* tools = [search_knowledge_base, get_pod_logs, create_pull_request]
MainTools == {"search_knowledge_base", "get_pod_logs", "create_pull_request"}
\* GraphOrchestrator() default: [search_knowledge_base]
DefaultTools == {"search_knowledge_base"}

\* the one action whose tool asks for approval
Sensitive(n) == n = "create_pull_request"
HasSensitive(calls) == \E i \in 1..Len(calls) : Sensitive(calls[i].name)

(***************************************************************************)
(* reason_node                                                             *)
(***************************************************************************)
\* Heuristic 1 without the "oom" keyword
Heuristic1_NoOom(query) ==
    IF Contains(query, W_log) \/ Contains(query, W_error)
    THEN <<[name |-> "get_pod_logs", id |-> "call_logs", args |-> <<>>]>>
    ELSE <<>>

Heuristic1(query) ==
    IF Contains(query, W_log) \/ Contains(query, W_error) \/ Contains(query, W_oom)
    THEN <<ToolCall("get_pod_logs", "call_logs", <<>>)>>
    ELSE <<>>

\* Heuristic 2 giving its call the id of Heuristic 1's call
Heuristic2_LogsId(content) == <<ToolCall("search_knowledge_base", "call_logs", content)>>

Heuristic2(content) == <<ToolCall("search_knowledge_base", "call_search", content)>>

\* Heuristic 3 with its first keyword cut to "fi"
Heuristic3_ShortKeyword(query) ==
    IF Contains(query, <<"f","i">>) \/ Contains(query, W_pr)
    THEN <<[name |-> "create_pull_request", id |-> "call_pr", args |-> query]>>
    ELSE <<>>

\* Heuristic 3 without its keyword test: every query asks for a pull request
Heuristic3_Always(query) == <<ToolCall("create_pull_request", "call_pr", query)>>

Heuristic3(query) ==
    IF Contains(query, W_fix) \/ Contains(query, W_pr)
    THEN <<ToolCall("create_pull_request", "call_pr", query)>>
    ELSE <<>>

ProposedCalls(content) ==
    LET query == Lower(content)
    IN  Heuristic1(query) \o Heuristic2(content) \o Heuristic3(query)

\* reason_node without the `len(messages) > 1` test: it proposes the calls again
reason_node_NoLenTest(msgs) ==
    LET last_msg == msgs[Len(msgs)]
    IN  IF last_msg.type = "ai" /\ last_msg.tool_calls = <<>>
        THEN [kind |-> "next_step_end", add |-> <<>>]
        ELSE IF msgs[1].type = "tuple"
        THEN [kind |-> "raise", add |-> <<>>]
        ELSE [kind |-> "messages",
              add |-> <<AIMessage("", ProposedCalls(msgs[1].text))>>]

\* reason_node returning no summary once the tools have run
reason_node_NoFinal(msgs) ==
    LET last_msg == msgs[Len(msgs)]
    IN  IF last_msg.type = "ai" /\ last_msg.tool_calls = <<>>
        THEN [kind |-> "next_step_end", add |-> <<>>]
        ELSE IF msgs[1].type = "tuple"
        THEN [kind |-> "raise", add |-> <<>>]
        ELSE IF Len(msgs) > 1
        THEN [kind |-> "next_step_end", add |-> <<>>]
        ELSE [kind |-> "messages",
              add |-> <<AIMessage("", ProposedCalls(msgs[1].text))>>]

\* reason_node summarising with a HumanMessage in place of the AIMessage
reason_node_WrongClass(msgs) ==
    LET last_msg == msgs[Len(msgs)]
    IN  IF last_msg.type = "ai" /\ last_msg.tool_calls = <<>>
        THEN [kind |-> "next_step_end", add |-> <<>>]
        ELSE IF msgs[1].type = "tuple"
        THEN [kind |-> "raise", add |-> <<>>]
        ELSE IF Len(msgs) > 1
        THEN [kind |-> "messages", add |-> <<HumanMessage(<<>>)>>]
        ELSE [kind |-> "messages",
              add |-> <<AIMessage("", ProposedCalls(msgs[1].text))>>]

\* the update returned by reason_node, or the exception it raises
reason_node(msgs) ==
    LET last_msg == msgs[Len(msgs)]
    IN  IF last_msg.type = "ai" /\ last_msg.tool_calls = <<>>
        THEN [kind |-> "next_step_end", add |-> <<>>]
        ELSE IF msgs[1].type = "tuple"
        THEN [kind |-> "raise", add |-> <<>>]
        ELSE IF Len(msgs) > 1
        THEN [kind |-> "messages", add |-> <<AIMessage("final", <<>>)>>]
        ELSE [kind |-> "messages",
              add |-> <<AIMessage("", ProposedCalls(msgs[1].text))>>]

(***************************************************************************)
(* should_continue and the edges of build_graph                            *)
(***************************************************************************)
\* should_continue with the test of its first branch negated
should_continue_Negated(msgs) ==
    LET last_message == msgs[Len(msgs)]
    IN  IF ~HasToolCalls(last_message) THEN "tools"
        ELSE IF Len(msgs) > 1 /\ last_message.type = "tool" THEN "agent"
        ELSE IF last_message.type = "ai" /\ last_message.tool_calls = <<>> THEN END
        ELSE "agent"

\* should_continue without its END branch
should_continue_NoEnd(msgs) ==
    LET last_message == msgs[Len(msgs)]
    IN  IF HasToolCalls(last_message) THEN "tools"
        ELSE IF Len(msgs) > 1 /\ last_message.type = "tool" THEN "agent"
        ELSE "agent"

\* should_continue sending to "tools" only a batch with a call that carries
\* arguments
should_continue_ArgsAware(msgs) ==
    LET last_message == msgs[Len(msgs)]
    IN  IF HasToolCalls(last_message)
           /\ \E i \in 1..Len(last_message.tool_calls) :
                  last_message.tool_calls[i].args # <<>>
        THEN "tools"
        ELSE IF Len(msgs) > 1 /\ last_message.type = "tool" THEN "agent"
        ELSE IF last_message.type = "ai" THEN END
        ELSE "agent"

should_continue(msgs) ==
    LET last_message == msgs[Len(msgs)]
    IN  IF HasToolCalls(last_message) THEN "tools"
        ELSE IF Len(msgs) > 1 /\ last_message.type = "tool" THEN "agent"
        ELSE IF last_message.type = "ai" /\ last_message.tool_calls = <<>> THEN END
        ELSE "agent"

\* add_conditional_edges("agent", should_continue, {"tools": "tools", END: END})
EdgeTargets == {"tools", END}

\* the tool node wired to END: workflow.add_edge("tools", END)
ToolsEdge_End == "end"

\* workflow.add_edge("tools", "agent"): where the run stands after the tool node
ToolsEdge == "agent"

\* workflow.compile(checkpointer=MemorySaver())
Checkpointer_Memory == "memory"

\* workflow.compile(): no checkpointer is given
Checkpointer == "none"

\* compile(checkpointer=MemorySaver()): every step's state is kept per thread
SaveCheckpoint_Memory(cp, t, s) ==
    IF t = "" THEN cp ELSE [cp EXCEPT ![t] = [found |-> TRUE, state |-> s]]

\* state persisted for thread t after a step that leaves the state s
SaveCheckpoint(cp, t, s) ==
    IF Checkpointer = "none" \/ t = ""
    THEN cp
    ELSE [cp EXCEPT ![t] = [found |-> TRUE, state |-> s]]

(***************************************************************************)
(* Approval gate (slack_approver.py) and GitHub provider                   *)
(***************************************************************************)
\* what reaches input() at the "Authorize execution?" prompt: a line of
\* text, end of file, or Ctrl-C.  Ctrl-C has two outcomes, by interpreter:
\* "KeyboardInterrupt" is raised inside input() (Python 3.10, or a second
\* Ctrl-C on 3.11 and later); "SIGINT" is the first Ctrl-C on Python 3.11 and
\* later, where the handler installed by asyncio.run(main()) asks to cancel
\* the main task and returns, so that input() goes on waiting
GateInputs ==
    [kind : {"text"}, text : GateTexts]
        \cup {[kind |-> "KeyboardInterrupt", text |-> <<>>],
              [kind |-> "EOFError", text |-> <<>>],
              [kind |-> "SIGINT", text |-> <<>>]}

\* await_validation giving up on an invalid command instead of asking again
await_validation_InvalidDenies(x) ==
    IF x.kind = "KeyboardInterrupt" THEN "False"
    ELSE IF x.kind = "SIGINT" THEN "blocked"
    ELSE IF x.kind = "EOFError" THEN "raise"
    ELSE IF Strip(Lower(x.text)) \in ConfirmWords THEN "True" ELSE "False"

\* one iteration of await_validation's loop on the input x:
\* "True" / "False" returned, "retry" for another prompt, "raise" for an
\* exception that the loop does not catch, "blocked" when input() has not
\* returned
await_validation(x) ==
    IF x.kind = "KeyboardInterrupt" THEN "False"
    ELSE IF x.kind = "SIGINT" THEN "blocked"
    ELSE IF x.kind = "EOFError" THEN "raise"
    ELSE LET user_input == Strip(Lower(x.text))
         IN  IF user_input \in ConfirmWords THEN "True"
             ELSE IF user_input \in AbortWords THEN "False"
             ELSE "retry"

\* dispatch_alert without its try/except: a failed post raises
dispatch_alert_NoExcept(hook) ==
    IF ~hook THEN {"skipped"} ELSE {"delivered", "raise"}

\* dispatch_alert: nothing without a webhook, else the post succeeds or its
\* RequestException is logged; it returns None in every case
dispatch_alert(hook) ==
    IF ~hook THEN {"skipped"} ELSE {"delivered", "failed"}

\* github_server.execute_tool(name, arguments): the results it can produce
execute_tool(name) ==
    IF name # "create_remediation_pr" THEN {"raise"}
    ELSE {"dry_run", "success", "schema_error", "runtime_error"}

\* create_pull_request calling the backend whatever `approved` is
CallsBackend_Always(a) == TRUE

\* create_pull_request with the test of `approved` negated
CallsBackend_Negated(a) == a # "True"

\* the branch of create_pull_request on `approved`: TRUE when gh_call is made
CallsBackend(a) == a = "True"

\* create_pull_request without its else branch: no decline is returned
PRResult_NoDecline(a, outcome) ==
    IF outcome = "raise" THEN "pr_failed" ELSE outcome

\* create_pull_request returning an empty string from its else branch
PRResult_EmptyDecline(a, outcome) ==
    IF CallsBackend(a)
    THEN (IF outcome = "raise" THEN "pr_failed" ELSE outcome)
    ELSE ""

\* create_pull_request's return value for a backend outcome
PRResult(a, outcome) ==
    IF CallsBackend(a)
    THEN (IF outcome = "raise" THEN "pr_failed" ELSE outcome)
    ELSE "denied"

(***************************************************************************)
(* Initial state                                                           *)
(***************************************************************************)
NoCheckpoint == [found |-> FALSE, state |-> <<>>]
NoneInvoked == [id \in CallIds |-> 0]
NoAnswer == [kind |-> "none", text |-> <<>>]

Init ==
    /\ pc = "idle"
    /\ entry = "none"
    /\ thread = ""
    /\ messages = <<>>
    /\ route = "none"
    /\ tool_results = <<>>
    /\ ti = 0
    /\ approved = "unset"
    /\ gate = "none"
    /\ prompts = 0
    /\ answer = NoAnswer
    /\ invoked = NoneInvoked
    /\ alerts = <<>>
    /\ webhook \in BOOLEAN
    /\ checkpoints = [t \in ThreadIds |-> NoCheckpoint]
    /\ response = "none"
    /\ prevGate = "none"
    /\ cancelRequested = FALSE
    /\ inflight = <<>>

\* the per-run locals as a new run finds them
FreshRun ==
    /\ route' = "none"
    /\ tool_results' = <<>>
    /\ ti' = 0
    /\ approved' = "unset"
    /\ gate' = "none"
    /\ prompts' = 0
    /\ answer' = NoAnswer
    /\ invoked' = NoneInvoked
    /\ alerts' = <<>>
    /\ cancelRequested' = FALSE

(***************************************************************************)
(* main.py: the CLI loop                                                   *)
(***************************************************************************)
MainInputs == Queries \cup {Q_Quit, W_exit, Q_yes_sp}

\* user_input = input().strip(); a query starts a graph run on one HumanMessage
MainSubmit(q) ==
    /\ pc = "idle"
    /\ inflight = <<>>
    /\ Lower(Strip(q)) \notin ExitWords
    /\ pc' = "agent"
    /\ entry' = "main"
    /\ thread' = ""
    /\ messages' = <<HumanMessage(Strip(q))>>
    /\ response' = "none"
    /\ prevGate' = IF entry = "main" THEN gate ELSE prevGate
    /\ FreshRun
    /\ UNCHANGED <<webhook, checkpoints, inflight>>

\* "exit" / "quit" leaves the loop
MainExit(q) ==
    /\ pc = "idle"
    /\ Lower(Strip(q)) \in ExitWords
    /\ pc' = "exited"
    /\ UNCHANGED <<entry, thread, messages, route, tool_results, ti, approved, gate,
                   prompts, answer, invoked, alerts, webhook, checkpoints, response, prevGate,
                   cancelRequested, inflight>>

(***************************************************************************)
(* api.py: POST /v1/chat                                                   *)
(***************************************************************************)
\* the handler building its state from what the in-flight cycles of the
\* same thread hold
initial_state_SharedThread(pending, t, q) ==
    LET same == SelectSeq(pending, LAMBDA r : r.thread = t)
    IN  (IF same = <<>> THEN <<>> ELSE same[Len(same)].messages)
            \o <<TupleMessage(q)>>

\* initial_state = {"messages": [("user", query.text)]}: the state a cycle
\* starts from, whatever other requests are in progress
initial_state(pending, t, q) == <<TupleMessage(q)>>

\* process_agent_query up to the start of the stream: an empty text fails
\* validation (min_length=1) and is answered 422; else the handler starts a
\* cycle on its own initial state.  The server takes no lock: the handler
\* of a request starts while others, of any thread_id, are in progress
\* (tasks of the event loop, or worker processes)
process_agent_query(t, q) ==
    /\ pc = "idle"
    /\ entry' = "api"
    /\ thread' = t
    /\ messages' = <<>>
    /\ IF q = <<>>
       THEN /\ response' = "http_422"
            /\ UNCHANGED inflight
       ELSE /\ Len(inflight) < MaxInFlight
            /\ response' = "none"
            /\ inflight' = Append(inflight,
                                  [thread |-> t,
                                   messages |-> initial_state(inflight, t, q)])
    /\ prevGate' = IF entry = "main" THEN gate ELSE prevGate
    /\ FreshRun
    /\ UNCHANGED <<pc, webhook, checkpoints>>

\* inflight without its i-th request
RemoveAt(seq, i) == [j \in 1..(Len(seq) - 1) |-> IF j < i THEN seq[j] ELSE seq[j + 1]]

\* the stream of the i-th request in progress: the first streamed state ends
\* in the pair ("user", text), whose .type raises AttributeError, answered
\* by HTTP 500
GraphExecutionFailed(i) ==
    /\ pc = "idle"
    /\ i \in 1..Len(inflight)
    /\ entry' = "api"
    /\ thread' = inflight[i].thread
    /\ response' = "http_500"
    /\ messages' = inflight[i].messages
    /\ checkpoints' = SaveCheckpoint(checkpoints, inflight[i].thread, inflight[i].messages)
    /\ inflight' = RemoveAt(inflight, i)
    /\ prevGate' = IF entry = "main" THEN gate ELSE prevGate
    /\ FreshRun
    /\ UNCHANGED <<pc, webhook>>

(***************************************************************************)
(* The graph run                                                           *)
(***************************************************************************)
\* the tools the orchestrator of this entry point was built with
ToolsOf(e) == IF e = "main" THEN MainTools ELSE DefaultTools

\* a messages channel without reducer: the value a node returns replaces
\* the list
operator_add_Replace(left, right) == right

\* messages: Annotated[List[BaseMessage], operator.add]: what a node
\* returns under "messages" is concatenated to the list
operator_add(left, right) == left \o right

\* node "agent"
ReasonStep ==
    /\ pc = "agent"
    /\ LET u == reason_node(messages)
       IN  IF u.kind = "raise"
           THEN /\ pc' = "idle"
                /\ response' = "execution_error"
                /\ messages' = messages
           ELSE /\ pc' = "route"
                /\ response' = response
                /\ messages' = operator_add(messages, u.add)
    /\ route' = "none"
    /\ checkpoints' = SaveCheckpoint(checkpoints, thread, messages')
    /\ UNCHANGED <<entry, thread, tool_results, ti, approved, gate, prompts,
                   answer, invoked, alerts, webhook, prevGate,
                   cancelRequested, inflight>>

\* the conditional edge after "agent"
Route ==
    /\ pc = "route"
    /\ route' = should_continue(messages)
    /\ IF route' \in EdgeTargets
       THEN /\ pc' = IF route' = "tools" THEN "tools_enter" ELSE "end"
            /\ response' = response
       ELSE /\ pc' = "idle"
            /\ response' = "execution_error"
    /\ UNCHANGED <<entry, thread, messages, tool_results, ti, approved, gate, prompts,
                   answer, invoked, alerts, webhook, checkpoints, prevGate,
                   cancelRequested, inflight>>

\* the lookup falling back to the knowledge-base search for an unknown name
matched_tool_Fallback(name, tools) ==
    IF name \in tools THEN name ELSE "search_knowledge_base"

\* matched_tool = next((t for t in self.tools if t.name == tool_name), None)
matched_tool(name, tools) == IF name \in tools THEN name ELSE "None"

\* the exception classes that are subclasses of Exception
ExceptionSubclasses == {"RuntimeError", "ValueError", "EOFError", "AttributeError"}

\* tool_node with `except ValueError` in place of `except Exception`
ExceptCatches_OnlyValueError(exc) == exc = "ValueError"

\* tool_node's `except Exception`: the exceptions it catches
ExceptCatches(exc) == exc \in ExceptionSubclasses

\* the content tool_node gives the ToolMessage: str(res), or "Error: ..."
\* for a caught exception
ToolResult(outcome) == IF outcome = "raise" THEN "Error" ELSE outcome

\* tool_node up to the start of its loop
ToolNodeEnter ==
    /\ pc = "tools_enter"
    /\ IF ~HasToolCalls(messages[Len(messages)])
       THEN pc' = "end" /\ ti' = ti
       ELSE pc' = "tools" /\ ti' = 1
    /\ tool_results' = <<>>
    /\ UNCHANGED <<entry, thread, messages, route, approved, gate, prompts, answer, invoked,
                   alerts, webhook, checkpoints, response, prevGate,
                   cancelRequested, inflight>>

CurrentCalls == messages[Len(messages)].tool_calls

\* tool_node walking last_message.tool_calls from the last call to the first
CurrentCall_Reversed == CurrentCalls[Len(CurrentCalls) + 1 - ti]

\* the call of the current iteration of `for tool_call in last_message.tool_calls`
CurrentCall == CurrentCalls[ti]

\* what the executor behind a registered tool other than create_pull_request
\* does: search_knowledge_base returns its text or raises (store errors);
\* get_pod_logs returns the logs or the error text of k8s_call
ExecutorOutcomes(name) ==
    IF name = "search_knowledge_base"
    THEN {"kb_results", "raise"}
    ELSE {"logs", "k8s_error_text"}

\* one iteration of tool_node's loop, for a call that is not create_pull_request
DispatchCall ==
    /\ pc = "tools"
    /\ ti <= Len(CurrentCalls)
    /\ LET c == CurrentCall
           m == matched_tool(c.name, ToolsOf(entry))
       IN  /\ m # "create_pull_request"
           /\ IF m = "None"
              THEN /\ tool_results' =
                         Append(tool_results, ToolMessage(c.id, "not_found", c.name))
                   /\ invoked' = invoked
                   /\ ti' = ti + 1
                   /\ UNCHANGED <<pc, response>>
              ELSE /\ invoked' = [invoked EXCEPT ![c.id] = @ + 1]
                   /\ \E outcome \in ExecutorOutcomes(m) :
                         IF outcome = "raise" /\ ~ExceptCatches("RuntimeError")
                         THEN \* the exception leaves tool_node and the graph run
                              /\ pc' = "idle"
                              /\ response' = "execution_error"
                              /\ UNCHANGED <<tool_results, ti>>
                         ELSE /\ tool_results' =
                                    Append(tool_results,
                                           ToolMessage(c.id, ToolResult(outcome), c.name))
                              /\ ti' = ti + 1
                              /\ UNCHANGED <<pc, response>>
    /\ UNCHANGED <<entry, thread, messages, route, approved, gate, prompts,
                   answer, alerts, webhook, checkpoints, prevGate,
                   cancelRequested, inflight>>

\* create_pull_request up to the first prompt: request_approval sends the
\* alert and enters await_validation
RequestApproval ==
    /\ pc = "tools"
    /\ ti <= Len(CurrentCalls)
    /\ matched_tool(CurrentCall.name, ToolsOf(entry)) = "create_pull_request"
    /\ \E a \in dispatch_alert(webhook) :
          /\ alerts' = Append(alerts, a)
          /\ IF a = "raise"
             THEN \* an exception of the alert leaves create_pull_request
                  \* before the wait and is caught by tool_node
                  /\ gate' = "error"
                  /\ tool_results' =
                        Append(tool_results,
                               ToolMessage(CurrentCall.id, ToolResult("raise"),
                                           CurrentCall.name))
                  /\ ti' = ti + 1
                  /\ UNCHANGED <<pc, prompts>>
             ELSE /\ pc' = "gate"
                  /\ gate' = "pending"
                  /\ prompts' = 1
                  /\ UNCHANGED <<tool_results, ti>>
    /\ UNCHANGED <<entry, thread, messages, route, approved, answer,
                   invoked, webhook, checkpoints, response, prevGate,
                   cancelRequested, inflight>>

\* whether a requested cancellation ends the run once the tool has raised:
\* the CancelledError is thrown at the next await of the main task, unless
\* the request was passed on to the task of the tool, which ends with the
\* tool's own exception
CancelOutcomes(requested) == IF requested THEN {TRUE, FALSE} ELSE {FALSE}

\* a wait that records what the operator typed as a turn of the conversation
GateWrites_RecordsAnswer(msgs, x) == Append(msgs, HumanMessage(x.text))

\* the conversation as the wait leaves it: await_validation reads stdin and
\* returns; the gate holds the webhook URL and is handed the proposal text,
\* never the state of the graph
GateWrites(msgs, x) == msgs

\* one answer at the prompt
AwaitValidation(x) ==
    /\ pc = "gate"
    /\ LET r == await_validation(x)
       IN  CASE r = "True" ->
                  /\ approved' = "True"
                  /\ answer' = x
                  /\ gate' = "authorized"
                  /\ pc' = "pr_branch"
                  /\ UNCHANGED <<prompts, tool_results, ti, response, cancelRequested>>
             [] r = "False" ->
                  /\ approved' = "False"
                  /\ answer' = x
                  /\ gate' = "denied"
                  /\ pc' = "pr_branch"
                  /\ UNCHANGED <<prompts, tool_results, ti, response, cancelRequested>>
             [] r = "retry" ->
                  /\ prompts < MaxPrompts
                  /\ prompts' = prompts + 1
                  /\ UNCHANGED <<approved, gate, pc, tool_results, ti, answer, response,
                                 cancelRequested>>
             [] r = "blocked" ->
                  \* the cancellation waits for the task's next suspension
                  /\ ~cancelRequested
                  /\ cancelRequested' = TRUE
                  /\ UNCHANGED <<approved, gate, pc, tool_results, ti, answer, response,
                                 prompts>>
             [] OTHER ->
                  \* the EOFError leaves create_pull_request and reaches
                  \* tool_node's except
                  /\ gate' = "error"
                  /\ answer' = x
                  /\ IF ExceptCatches("EOFError")
                     THEN /\ tool_results' =
                                Append(tool_results,
                                       ToolMessage(CurrentCall.id, ToolResult("raise"),
                                                   CurrentCall.name))
                          /\ ti' = ti + 1
                          \* a requested cancellation strikes at the next
                          \* suspension, or is lost with the tool's task
                          /\ \E struck \in CancelOutcomes(cancelRequested) :
                                IF struck
                                THEN /\ pc' = "exited"
                                     /\ response' = "shutdown"
                                     /\ cancelRequested' = cancelRequested
                                ELSE /\ pc' = "tools"
                                     /\ response' = response
                                     /\ cancelRequested' = FALSE
                     ELSE /\ pc' = "idle"
                          /\ response' = "execution_error"
                          /\ UNCHANGED <<tool_results, ti, cancelRequested>>
                  /\ UNCHANGED <<approved, prompts>>
    /\ messages' = GateWrites(messages, x)
    /\ UNCHANGED <<entry, thread, route, invoked, alerts, webhook,
                   checkpoints, prevGate, inflight>>

\* create_pull_request after request_approval returned
PRBranch ==
    /\ pc = "pr_branch"
    /\ LET c == CurrentCall
       IN  /\ \E outcome \in execute_tool("create_pull_request") :
                 tool_results' =
                     Append(tool_results,
                            ToolMessage(c.id, PRResult(approved, outcome), c.name))
           /\ invoked' = IF CallsBackend(approved)
                         THEN [invoked EXCEPT ![c.id] = @ + 1]
                         ELSE invoked
    /\ ti' = ti + 1
    /\ IF cancelRequested
       THEN \* the tool has returned: the CancelledError is not an Exception,
            \* it leaves tool_node and main's loop; asyncio.run raises
            \* KeyboardInterrupt and the program prints its shutdown line
            /\ pc' = "exited"
            /\ response' = "shutdown"
       ELSE /\ pc' = "tools"
            /\ response' = response
    /\ UNCHANGED <<entry, thread, messages, route, approved, gate, prompts, answer, alerts,
                   webhook, checkpoints, prevGate, cancelRequested, inflight>>

\* tool_node returns {"messages": tool_results}; edge "tools" -> "agent"
ToolNodeReturn ==
    /\ pc = "tools"
    /\ ti > Len(CurrentCalls)
    /\ messages' = operator_add(messages, tool_results)
    /\ pc' = ToolsEdge
    /\ checkpoints' = SaveCheckpoint(checkpoints, thread, messages')
    /\ UNCHANGED <<entry, thread, route, tool_results, ti, approved, gate, prompts,
                   answer, invoked, alerts, webhook, response, prevGate,
                   cancelRequested, inflight>>

\* END: the stream is exhausted, main prints "Cycle Complete"
EndRun ==
    /\ pc = "end"
    /\ pc' = "idle"
    /\ response' = "cycle_complete"
    /\ UNCHANGED <<entry, thread, messages, route, tool_results, ti, approved, gate,
                   prompts, answer, invoked, alerts, webhook, checkpoints, prevGate,
                   cancelRequested, inflight>>

Next ==
    \/ \E q \in MainInputs : MainSubmit(q)
    \/ \E q \in MainInputs : MainExit(q)
    \/ \E t \in ThreadIds, q \in ApiTexts : process_agent_query(t, q)
    \/ \E i \in 1..MaxInFlight : GraphExecutionFailed(i)
    \/ ReasonStep
    \/ Route
    \/ ToolNodeEnter
    \/ DispatchCall
    \/ RequestApproval
    \/ \E x \in GateInputs : AwaitValidation(x)
    \/ PRBranch
    \/ ToolNodeReturn
    \/ EndRun

Spec == Init /\ [][Next]_vars

(***************************************************************************)
(* SpecLive: the graph run under the scheduling of the event loop          *)
(***************************************************************************)
\* a node or a tool that can run does run: asyncio resumes every coroutine
\* that is ready.  Nothing is assumed of the operator: what is typed at the
\* two prompts, and when, is not scheduled by the program
EngineFairness ==
    /\ WF_vars(ReasonStep)
    /\ WF_vars(Route)
    /\ WF_vars(ToolNodeEnter)
    /\ WF_vars(DispatchCall)
    /\ WF_vars(RequestApproval)
    /\ WF_vars(PRBranch)
    /\ WF_vars(ToolNodeReturn)
    /\ WF_vars(EndRun)

SpecLive == Init /\ [][Next]_vars /\ EngineFairness

(***************************************************************************)
(* SpecCrash: the program with crashes of its process                      *)
(***************************************************************************)
\* the process dies and main() is started again: every local of the old
\* process is gone, the compiled graph starts with what it had persisted
CrashRestart ==
    /\ pc # "exited"
    /\ pc' = "idle"
    /\ entry' = "none"
    /\ thread' = ""
    /\ messages' = <<>>
    /\ response' = "crashed"
    /\ prevGate' = gate
    /\ inflight' = <<>>
    /\ FreshRun
    /\ UNCHANGED <<webhook, checkpoints>>

NextCrash == Next \/ CrashRestart

SpecCrash == Init /\ [][NextCrash]_vars

(***************************************************************************)
(* SpecRouter: should_continue and the nodes applied to arbitrary states   *)
(* of a run, the batch of the latest assistant turn drawn from every       *)
(* sequence of at most MaxBatch action names                               *)
(***************************************************************************)
ActionNames == MainTools \cup {"unknown_tool"}

IdOfName(n) ==
    CASE n = "get_pod_logs" -> "call_logs"
      [] n = "create_pull_request" -> "call_pr"
      [] OTHER -> "call_search"

NameSeqs == UNION {[1..n -> ActionNames] : n \in 0..MaxBatch}

BatchOf(ns) == [i \in 1..Len(ns) |-> ToolCall(ns[i], IdOfName(ns[i]), <<>>)]

\* the arguments the calls of a batch carry: none, the text of a query, or
\* the two in turn, so that calls of one name differ in their arguments
ArgsPatterns == {"none", "query", "mixed"}

ArgsAt(p, i) ==
    CASE p = "none" -> <<>>
      [] p = "query" -> Q_fix
      [] OTHER -> IF i % 2 = 1 THEN <<>> ELSE Q_fix

BatchWith(ns, p) ==
    [i \in 1..Len(ns) |-> ToolCall(ns[i], IdOfName(ns[i]), ArgsAt(p, i))]

RouterStates ==
    {<<HumanMessage(Q_hi), AIMessage("", BatchWith(ns, p))>> :
        ns \in NameSeqs, p \in ArgsPatterns}
        \cup {<<HumanMessage(Q_hi)>>,
              <<HumanMessage(Q_hi), AIMessage("final", <<>>)>>,
              <<HumanMessage(Q_hi), AIMessage("", BatchOf(<<"get_pod_logs">>)),
                ToolMessage("call_logs", "logs", "get_pod_logs")>>}

InitRouter ==
    /\ pc = "route"
    /\ entry = "main"
    /\ thread = ""
    /\ messages \in RouterStates
    /\ route = "none"
    /\ tool_results = <<>>
    /\ ti = 0
    /\ approved = "unset"
    /\ gate = "none"
    /\ prompts = 0
    /\ answer = NoAnswer
    /\ invoked = NoneInvoked
    /\ alerts = <<>>
    /\ webhook \in BOOLEAN
    /\ checkpoints = [t \in ThreadIds |-> NoCheckpoint]
    /\ response = "none"
    /\ prevGate = "none"
    /\ cancelRequested = FALSE
    /\ inflight = <<>>

SpecRouter == InitRouter /\ [][Next]_vars

(***************************************************************************)
(* Derived views used by the properties                                    *)
(***************************************************************************)
LastMessage == messages[Len(messages)]

\* the turns of the current run, those tool_node still holds included
RunTurns ==
    IF pc \in {"tools", "gate", "pr_branch"} THEN messages \o tool_results ELSE messages

ToolTurnsFor(id) ==
    {i \in 1..Len(RunTurns) : RunTurns[i].type = "tool" /\ RunTurns[i].tool_call_id = id}

Roles(msgs) == [i \in 1..Len(msgs) |-> msgs[i].type]

\* the run of the CLI has ended normally
CycleComplete == entry = "main" /\ pc = "idle" /\ response = "cycle_complete"

\* the batch proposed in this run (the assistant turn after the user turn)
HasBatch == Len(messages) >= 2 /\ messages[2].type = "ai"
Batch == messages[2].tool_calls
BatchNames == [i \in 1..Len(Batch) |-> Batch[i].name]

(***************************************************************************)
(* Properties                                                              *)
(***************************************************************************)

\* C1: the pull-request backend (gh_call) has been invoked for the gated call
\* only if the approval wait of that call returned True ("authorized"); it
\* has not run while the decision is pending, denied or ended in an error.
C1_ExecutorOnlyAfterAuthorize ==
    invoked["call_pr"] > 0 => gate = "authorized"

C1_Witness == invoked["call_pr"] = 1 /\ gate = "authorized"

\* the batch of the assistant turn is the latest turn and has been routed
BatchRouted == route # "none" /\ Len(messages) = 2 /\ messages[2].type = "ai"

\* C2 as stated: a batch with a sensitive call is classified "gated" by the router.
C2_Original ==
    (BatchRouted /\ HasSensitive(Batch)) => route = "gated"

\* C2 as amended: for a batch with at least one sensitive call the router
\* returns "tools", the decision it takes for every non-empty batch, and
\* never END, whatever the number and position of the safe calls.
C2_SensitiveBatchRoutedToTools ==
    (BatchRouted /\ HasSensitive(Batch)) => (route = "tools" /\ pc # "end")

C2_Witness ==
    /\ BatchRouted
    /\ route = "tools"
    /\ Len(Batch) = 3
    /\ Sensitive(Batch[1].name)
    /\ ~Sensitive(Batch[2].name)
    /\ ~Sensitive(Batch[3].name)

ExplicitAuthorize(x) == x.kind = "text" /\ Strip(Lower(x.text)) \in ConfirmWords

\* C5: the approval wait authorizes only on an explicit authorize input, and
\* a gated call ends as "authorized" or "denied" and in no third way.
C5_FailClosedTwoOutcomes ==
    /\ gate = "authorized" => ExplicitAuthorize(answer)
    /\ gate \in {"none", "pending", "authorized", "denied"}

\* a decision word typed again after the approval wait of the previous run
\* has consumed the decision: it reaches the "User:" prompt
SecondResume ==
    /\ entry = "main"
    /\ prevGate \in {"authorized", "denied"}
    /\ Len(messages) >= 1
    /\ messages[1].type = "human"
    /\ Lower(messages[1].text) \in ConfirmWords \cup AbortWords

\* C6 as stated: the second resume is a no-op (nothing is dispatched).
C6_Original ==
    SecondResume => (invoked = NoneInvoked /\ Len(messages) = 1)

\* C6 as amended: the second resume does not dispatch the sensitive action
\* again, but it is not a no-op: the repeated decision is read as a new query
\* whose cycle proposes the knowledge-base search alone and asks no approval.
C6_SecondResumeNoSensitiveDispatch ==
    SecondResume =>
        /\ invoked["call_pr"] = 0
        /\ gate = "none"
        /\ HasBatch => BatchNames = <<"search_knowledge_base">>

C6_Witness ==
    /\ SecondResume
    /\ CycleComplete
    /\ prevGate = "authorized"
    /\ invoked["call_search"] = 1

\* C7: a completed cycle whose batch is two safe calls has exactly the five
\* turns user, assistant-with-calls, tool, tool, assistant-final, the tool
\* turns answering the two calls in order; "oom on backend-api" is such a query.
C7_SafeBatchFiveTurns ==
    /\ (CycleComplete /\ HasBatch /\ Len(Batch) = 2 /\ ~HasSensitive(Batch)) =>
          /\ Roles(messages) = <<"human", "ai", "tool", "tool", "ai">>
          /\ messages[3].tool_call_id = Batch[1].id
          /\ messages[4].tool_call_id = Batch[2].id
          /\ messages[5].tool_calls = <<>>
          /\ invoked[Batch[1].id] = 1
          /\ invoked[Batch[2].id] = 1
    /\ (entry = "main" /\ HasBatch /\ messages[1].text = Q_oom) =>
          BatchNames = <<"get_pod_logs", "search_knowledge_base">>

C7_Witness ==
    /\ CycleComplete
    /\ messages[1].text = Q_oom
    /\ Len(messages) = 5

\* a CLI run on a query containing "fix" whose batch is [search, pull request]
FixRun ==
    /\ entry = "main"
    /\ HasBatch
    /\ Contains(Lower(messages[1].text), W_fix)
    /\ BatchNames = <<"search_knowledge_base", "create_pull_request">>

C9_EmptyBatchTerminal ==
    (route # "none" /\ Len(messages) >= 1
        /\ LastMessage.type = "ai" /\ LastMessage.tool_calls = <<>>) =>
            (route = END /\ pc \in {"end", "idle", "exited"})

C9_Witness ==
    /\ route = END
    /\ pc = "end"
    /\ Len(messages) = 2
    /\ LastMessage.tool_calls = <<>>
    /\ invoked = NoneInvoked

\* C10: after a request on thread t has left the state s, the state saved
\* for t is s (save(t, s) followed by load(t) returns s).
C10_RoundTrip ==
    (entry = "api" /\ response = "http_500") =>
        checkpoints[thread] = [found |-> TRUE, state |-> messages]

\* C11: an exception raised by an executor does not leave tool_node: the run
\* is not aborted, every call walked so far has its result in call order
\* (the raising one an "Error" result), and when tool_node returns every
\* call of the batch has been dispatched and answered.
C11_DispatcherCatches ==
    /\ ti > 0 => response # "execution_error"
    /\ pc \in {"tools", "gate", "pr_branch"} =>
          /\ Len(tool_results) = ti - 1
          /\ \A i \in 1..Len(tool_results) :
                tool_results[i].tool_call_id = CurrentCalls[i].id
    /\ (pc = "agent" /\ Len(messages) > 2 /\ HasBatch) =>
          Len(messages) = 2 + Len(Batch)

C11_Witness ==
    /\ pc = "agent"
    /\ Len(messages) = 5
    /\ messages[3].content = "Error"
    /\ messages[3].name = "search_knowledge_base"
    /\ messages[4].content = "logs"
    /\ messages[5].content = "Error"
    /\ messages[5].name = "create_pull_request"

\* the positions of the current batch whose name tool_node does not know
Unregistered == {i \in 1..Len(Batch) : Batch[i].name \notin ToolsOf(entry)}

\* C12: a call whose name is not registered gets a tool turn "Tool <name>
\* not found." with its call id and name, no executor runs for it, the run
\* is not ended with an error, and the reasoning step that follows sees
\* that turn at the call's position.
C12_UnknownToolNotFound ==
    /\ ti > 0 => response # "execution_error"
    /\ (HasBatch /\ Len(messages) = 2 /\ pc \in {"tools", "gate", "pr_branch"}) =>
          \A i \in Unregistered :
             i <= Len(tool_results) =>
                tool_results[i] = ToolMessage(Batch[i].id, "not_found", Batch[i].name)
    /\ (HasBatch /\ Len(messages) > 2 /\ pc = "agent") =>
          \A i \in Unregistered :
             messages[2 + i] = ToolMessage(Batch[i].id, "not_found", Batch[i].name)
    /\ (HasBatch /\ Unregistered = 1..Len(Batch)) => invoked = NoneInvoked

C12_Witness ==
    /\ pc = "agent"
    /\ HasBatch
    /\ Len(messages) = 5
    /\ BatchNames = <<"get_pod_logs", "unknown_tool", "search_knowledge_base">>
    /\ messages[4].content = "not_found"
    /\ messages[5].content = "kb_results"

\* a cycle has just been aborted by an exception
CycleAborted == pc = "idle" /\ response \in {"http_500", "execution_error"}

AbortSignalled == cancelRequested \/ answer.kind = "KeyboardInterrupt"

\* C14: an abort signal delivered while the approval wait is blocked makes
\* the wait return "deny": once the signal has arrived the gated call is
\* denied, it is not left pending and it is not authorized, and the
\* pull-request backend is not invoked.
C14_AbortDenies ==
    AbortSignalled =>
        /\ gate = "denied"
        /\ approved = "False"
        /\ invoked["call_pr"] = 0

\* C15: when dispatch_alert does not deliver (no webhook, or the post
\* fails) it still returns: the run is not aborted, the approval wait is
\* entered and stays pending until the prompt is answered, and every way
\* out of the wait comes from an input at the prompt, never from the alert.
C15_AlertFailureKeepsWaiting ==
    alerts # <<>> =>
        /\ alerts[Len(alerts)] \in {"skipped", "delivered", "failed"}
        /\ gate # "none"
        /\ response # "execution_error"
        /\ pc = "gate" => (gate = "pending" /\ prompts >= 1)
        /\ gate \in {"authorized", "denied"} => answer.kind \in {"text", "KeyboardInterrupt"}
        /\ gate = "authorized" => ExplicitAuthorize(answer)
        /\ gate = "error" => answer.kind = "EOFError"

C15_Witness ==
    /\ webhook
    /\ alerts = <<"failed">>
    /\ pc = "gate"
    /\ gate = "pending"
    /\ approved = "unset"
    /\ invoked["call_pr"] = 0

\* C16 as stated: when a batch is gated a checkpoint is saved, the alert is
\* sent and control is back with the caller, with status awaiting_approval,
\* while the decision is pending.
C16_Original ==
    gate = "pending" =>
        /\ alerts # <<>>
        /\ \E t \in ThreadIds : checkpoints[t].found
        /\ pc = "idle"
        /\ response = "awaiting_approval"

\* C16 as amended: the alert is sent and the tool then blocks inside the
\* run: while the decision is pending the program stands in the approval
\* wait, the caller has received nothing and no checkpoint exists; the wait
\* ends only on a decision word, Ctrl-C or end of file at the prompt, and
\* the same run goes on from there with its state as it was.
C16_BlocksInline ==
    /\ gate = "pending" =>
          /\ alerts # <<>>
          /\ pc = "gate"
          /\ response = "none"
          /\ \A t \in ThreadIds : ~checkpoints[t].found
    /\ gate = "authorized" => ExplicitAuthorize(answer)
    /\ gate = "denied" =>
          \/ answer.kind = "KeyboardInterrupt"
          \/ answer.kind = "text" /\ Strip(Lower(answer.text)) \in AbortWords
    /\ pc = "pr_branch" =>
          /\ gate \in {"authorized", "denied"}
          /\ response = "none"
          /\ entry = "main"
          /\ HasBatch /\ Len(messages) = 2

C16_Witness ==
    /\ gate = "pending"
    /\ pc = "gate"
    /\ prompts = 2
    /\ alerts # <<>>
    /\ response = "none"

\* C17 as stated: no two cycles of the same thread_id are in progress at
\* the same time.
C17_Original ==
    \A i, j \in 1..Len(inflight) :
        i # j => inflight[i].thread # inflight[j].thread

\* C17 as amended: cycles are not serialized, but every cycle in progress
\* works on a state that holds its own user turn and nothing else, nothing
\* is stored per thread_id, and the state a request ends with is its own
\* one turn: no cycle sees or interleaves with the turns of another, of the
\* same thread or of a different one.
C17_CyclesIsolated ==
    /\ \A i \in 1..Len(inflight) :
          /\ Len(inflight[i].messages) = 1
          /\ inflight[i].messages[1].type = "tuple"
    /\ \A t \in ThreadIds : ~checkpoints[t].found
    /\ (entry = "api" /\ response = "http_500") =>
          (Len(messages) = 1 /\ messages[1].type = "tuple")

C17_Witness ==
    /\ Len(inflight) = 2
    /\ inflight[1].thread = "t1"
    /\ inflight[2].thread = "t1"
    /\ inflight[1].messages = <<TupleMessage(Q_fix)>>
    /\ inflight[2].messages = <<TupleMessage(Q_hi)>>
    /\ entry = "api"

\* the tool node is at work on the batch of this run
BatchInProgress == entry = "main" /\ HasBatch /\ Len(messages) = 2

\* the safe calls among the first n of the batch that name the executor nm
ExecutedBefore(n, nm) == {i \in 1..n : Batch[i].name = nm}

\* C18 as stated: while no decision has been made for a batch that holds a
\* sensitive call, no call of the batch has been dispatched.
C18_Original ==
    (BatchInProgress /\ HasSensitive(Batch) /\ gate \in {"none", "pending"}) =>
        (invoked = NoneInvoked /\ tool_results = <<>>)

\* C18 as amended: the tool node walks the batch in order; when the
\* sensitive call waits for its decision, every call listed before it has
\* been dispatched (the safe ones executed, once each) and no call listed
\* after it has.
C18_DispatchInOrderAroundDecision ==
    (BatchInProgress /\ pc = "gate") =>
        /\ Batch[ti].name = "create_pull_request"
        /\ Len(tool_results) = ti - 1
        /\ \A i \in 1..(ti - 1) : tool_results[i].tool_call_id = Batch[i].id
        /\ invoked["call_logs"] = Cardinality(ExecutedBefore(ti - 1, "get_pod_logs"))
        /\ invoked["call_search"] =
              Cardinality(ExecutedBefore(ti - 1, "search_knowledge_base"))

C18_Witness ==
    /\ BatchInProgress
    /\ pc = "gate"
    /\ gate = "pending"
    /\ BatchNames = <<"search_knowledge_base", "create_pull_request", "get_pod_logs">>
    /\ invoked["call_search"] = 1
    /\ invoked["call_logs"] = 0
    /\ Len(tool_results) = 1

\* the batch of this run holds exactly one sensitive call
OneSensitive ==
    HasBatch /\ Cardinality({i \in 1..Len(Batch) : Sensitive(Batch[i].name)}) = 1

\* the tool node has returned the results of the batch to the agent node
BatchAnswered ==
    /\ entry = "main"
    /\ HasBatch
    /\ Len(messages) > 2
    /\ pc \in {"agent", "route", "end", "idle"}

\* the contents a tool turn of an executed safe call can have
SafeResults == {"kb_results", "Error", "logs", "k8s_error_text"}

C20_ToolTurnsInCallOrder ==
    /\ BatchAnswered =>
          /\ Len(messages) \in {2 + Len(Batch), 3 + Len(Batch)}
          /\ \A i \in 1..Len(Batch) :
                /\ messages[2 + i].type = "tool"
                /\ messages[2 + i].tool_call_id = Batch[i].id
                /\ messages[2 + i].name = Batch[i].name
          /\ Len(messages) = 3 + Len(Batch) => messages[Len(messages)].type = "ai"
    /\ (BatchInProgress /\ pc \in {"tools", "gate", "pr_branch"}) =>
          /\ Len(tool_results) = ti - 1
          /\ Len(tool_results) <= Len(Batch)
          /\ \A i \in 1..Len(tool_results) :
                /\ tool_results[i].tool_call_id = Batch[i].id
                /\ tool_results[i].name = Batch[i].name

C20_Witness ==
    /\ BatchAnswered
    /\ pc = "agent"
    /\ BatchNames = <<"create_pull_request", "get_pod_logs", "search_knowledge_base">>
    /\ Len(messages) = 5
    /\ messages[3].tool_call_id = "call_pr"
    /\ messages[4].tool_call_id = "call_logs"
    /\ messages[5].tool_call_id = "call_search"
    /\ messages[5].content = "Error"

\* the calls of the assistant turns before position i that carry the id
CallsBefore(i, id) ==
    {<<j, k>> \in (1..(i - 1)) \X (1..MaxBatch) :
        /\ RunTurns[j].type = "ai"
        /\ k <= Len(RunTurns[j].tool_calls)
        /\ RunTurns[j].tool_calls[k].id = id}

\* C21: in the history of a run, the turns still held by the tool node
\* included, every tool turn carries the id of exactly one call of an
\* earlier assistant turn, and no id is answered by two tool turns.
C21_ToolTurnMatchesOneCall ==
    \A i \in 1..Len(RunTurns) :
        RunTurns[i].type = "tool" =>
            /\ Cardinality(CallsBefore(i, RunTurns[i].tool_call_id)) = 1
            /\ Cardinality(ToolTurnsFor(RunTurns[i].tool_call_id)) = 1

C21_Witness ==
    /\ CycleComplete
    /\ Len(messages) = 6
    /\ BatchNames = <<"get_pod_logs", "search_knowledge_base", "create_pull_request">>
    /\ messages[3].tool_call_id = "call_logs"
    /\ messages[4].tool_call_id = "call_search"
    /\ messages[5].tool_call_id = "call_pr"

\* the threads that have a live checkpoint
LiveCheckpoints == {t \in ThreadIds : checkpoints[t].found}

\* C22 as stated: while a gated call waits for its decision exactly one
\* checkpoint is live, and none is once the run is past the decision.
C22_Original ==
    /\ gate = "pending" => Cardinality(LiveCheckpoints) = 1
    /\ gate \in {"authorized", "denied"} => LiveCheckpoints = {}

\* C22 as amended: no checkpoint is ever live, neither while the gated call
\* waits for its decision nor after it; the waiting call exists only as the
\* position of the running tool node, and nothing is left to clear after
\* authorize or deny.
C22_NoCheckpointEver ==
    /\ LiveCheckpoints = {}
    /\ gate = "pending" =>
          (pc = "gate" /\ BatchInProgress /\ Sensitive(CurrentCall.name))

C22_Witness ==
    /\ gate = "denied"
    /\ CycleComplete
    /\ LiveCheckpoints = {}
    /\ answer.kind = "text"

\* the process was restarted after a crash that struck while a gated call
\* was waiting for its decision
RestartedFromSuspension == prevGate = "pending"

\* a decision word is entered after the restart
DecisionAfterRestart ==
    /\ RestartedFromSuspension
    /\ entry = "main"
    /\ Len(messages) >= 1
    /\ messages[1].type = "human"
    /\ Lower(messages[1].text) \in ConfirmWords \cup AbortWords

\* C23 as stated: after a crash between the suspension and its resume the
\* snapshot of the suspended thread can be loaded and the pending call is
\* still there to be decided.
C23_Original ==
    (RestartedFromSuspension /\ response = "crashed") =>
        /\ LiveCheckpoints # {}
        /\ \E t \in LiveCheckpoints : HasSensitive(checkpoints[t].state[2].tool_calls)

\* C23 as amended: a crash during the approval wait loses the suspension:
\* after the restart no snapshot exists for any thread, the history and the
\* pending call are gone, the pull-request backend has not been invoked, and
\* a decision word entered afterwards is read as a new query whose batch
\* holds no sensitive call, so the lost call is neither authorized nor denied.
C23_CrashLosesSuspension ==
    /\ LiveCheckpoints = {}
    /\ (RestartedFromSuspension /\ response = "crashed") =>
          /\ pc \in {"idle", "exited"}
          /\ messages = <<>>
          /\ tool_results = <<>>
          /\ gate = "none"
          /\ invoked = NoneInvoked
    /\ DecisionAfterRestart =>
          /\ gate = "none"
          /\ invoked["call_pr"] = 0
          /\ HasBatch => ~HasSensitive(Batch)

C23_Witness ==
    /\ DecisionAfterRestart
    /\ CycleComplete
    /\ Lower(messages[1].text) = W_confirm
    /\ BatchNames = <<"search_knowledge_base">>
    /\ invoked["call_pr"] = 0

\* the history ends with a tool turn
EndsWithToolTurn(msgs) == msgs # <<>> /\ msgs[Len(msgs)].type = "tool"

\* C24: a step that appends tool turns is the return of the tool node and
\* leaves the run at the agent node; from a history that ends with a tool
\* turn the only step taken is the reasoning step, which appends an
\* assistant turn and hands over to the router: never END, never the tool
\* node again.
C24_ToolTurnThenReasoning ==
    [][ /\ (messages' # messages /\ EndsWithToolTurn(messages')) =>
              (pc = "tools" /\ pc' = "agent")
        /\ EndsWithToolTurn(messages) =>
              /\ pc = "agent"
              /\ pc' = "route"
              /\ Len(messages') = Len(messages) + 1
              /\ messages'[Len(messages')].type = "ai"
              /\ SubSeq(messages', 1, Len(messages)) = messages
      ]_vars

C24_Witness ==
    /\ entry = "main"
    /\ pc = "route"
    /\ Len(messages) = 4
    /\ messages[3].type = "tool"
    /\ LastMessage.type = "ai"
    /\ LastMessage.tool_calls = <<>>

\* C25: whenever the router is consulted the last message is an assistant
\* message, so should_continue returns "tools" or END, the two targets of
\* the conditional edge; its branches that return "agent" are never taken
\* and no routing decision ever is "agent".
C25_RouterNeverReturnsAgent ==
    /\ pc = "route" =>
          /\ LastMessage.type = "ai"
          /\ should_continue(messages) \in EdgeTargets
          /\ should_continue(messages) = "tools" <=> LastMessage.tool_calls # <<>>
    /\ route \in {"none"} \cup EdgeTargets
    /\ response # "execution_error"

C25_Witness ==
    /\ pc = "end"
    /\ route = END
    /\ Len(messages) = 5
    /\ messages[4].type = "tool"
    /\ LastMessage.type = "ai"

\* a CLI run has just been started on its one user turn
RunStarted == entry = "main" /\ pc = "agent" /\ Len(messages) = 1

\* the run has ended with an assistant turn that proposes no action
RunCompleted ==
    /\ CycleComplete
    /\ LastMessage.type = "ai"
    /\ LastMessage.tool_calls = <<>>

\* C26 as stated: every run started on a single user turn reaches its end,
\* with an assistant turn that proposes no action.
C26_Original == RunStarted ~> RunCompleted

\* C26 as amended: every run started on a single user turn reaches its end
\* or the approval prompt, where it stays as long as the operator enters no
\* decision; once the prompt has been answered with a decision the run
\* reaches its end, with the final assistant turn or, when a Ctrl-C was
\* absorbed during the wait, with the shutdown of the program; reasoning
\* proposes actions only on a history of one message.
C26_TerminatesOnceDecided ==
    /\ RunStarted ~> (RunCompleted \/ pc = "gate")
    /\ (pc = "pr_branch") ~> (RunCompleted \/ response = "shutdown")
    /\ [](\A i \in 1..Len(messages) :
             HasToolCalls(messages[i]) => (i = 2 /\ entry = "main"))

C26_Witness ==
    /\ RunCompleted
    /\ gate = "authorized"
    /\ Len(messages) = 5
    /\ prompts = 2

\* the state a cycle is started from by this step: the message list handed
\* to the graph by the CLI, or by the handler of a request on thread t
StartedOn(t) ==
    IF entry' = "main" /\ pc' = "agent" /\ pc = "idle"
    THEN messages'
    ELSE inflight'[Len(inflight')].messages

\* a step that starts a cycle for a later query of a thread whose previous
\* cycle has ended: at the CLI after "Cycle Complete", at the API after the
\* answer to the last request of thread t
LaterQuery(t) ==
    \/ CycleComplete /\ pc' = "agent" /\ entry' = "main" /\ t = ""
    \/ /\ entry = "api" /\ response = "http_500" /\ thread = t
       /\ Len(inflight') = Len(inflight) + 1
       /\ inflight'[Len(inflight')].thread = t

\* C27: a later query on a thread whose cycle has terminated starts a new
\* cycle on top of the history the thread already has: the state the new
\* cycle starts from is that history followed by the new user turn.
C27_ResumesOnHistory ==
    [][\A t \in ThreadIds \cup {""} :
          (LaterQuery(t) /\ messages # <<>>) =>
              /\ Len(StartedOn(t)) = Len(messages) + 1
              /\ SubSeq(StartedOn(t), 1, Len(messages)) = messages]_vars

\* the calls of the batch that tool_node has started
CallsStarted ==
    IF Len(messages) > 2
    THEN Len(Batch)
    ELSE Len(tool_results) + (IF pc \in {"gate", "pr_branch"} THEN 1 ELSE 0)

SensitiveAmong(n) == {i \in 1..n : Sensitive(Batch[i].name)}

\* C28: the decisions taken for a batch are functions of the action names in
\* it, whatever arguments the calls carry: the router sends every non-empty
\* batch to "tools" and an empty one to END, approval has been asked once for
\* each started call named create_pull_request and for no other call, and
\* the routing step changes nothing but the route taken.
C28_ClassifiedByName ==
    /\ [](BatchRouted => route = (IF BatchNames # <<>> THEN "tools" ELSE END))
    /\ []((/\ entry = "main"
           /\ HasBatch
           /\ \/ Len(messages) = 2 /\ pc \in {"tools", "gate", "pr_branch"}
              \/ BatchAnswered)
             => Len(alerts) = Cardinality(SensitiveAmong(CallsStarted)))
    /\ [][pc = "route" =>
            UNCHANGED <<entry, thread, messages, tool_results, ti, approved, gate,
                        prompts, answer, invoked, alerts, webhook, checkpoints,
                        prevGate, cancelRequested, inflight>>]_vars

\* two calls of the sensitive action with different arguments, answered
\* after an approval was asked for each
C28_Witness ==
    /\ BatchAnswered
    /\ BatchNames = <<"create_pull_request", "create_pull_request">>
    /\ Batch[1].args # Batch[2].args
    /\ Len(alerts) = 2
    /\ route = "tools"

\* the approval gate is at work: create_pull_request is about to call
\* request_approval, or waits at the prompt
GateAtWork ==
    \/ /\ pc = "tools"
       /\ ti <= Len(CurrentCalls)
       /\ matched_tool(CurrentCall.name, ToolsOf(entry)) = "create_pull_request"
    \/ pc = "gate"

\* C29: a step of the approval gate (the alert, an answer at the prompt)
\* leaves every turn, every pending call, the state saved for every thread
\* and the requests in progress as they were; what it yields to its caller,
\* when it yields a decision, is True or False.
C29_GateLeavesConversation ==
    [][GateAtWork =>
          /\ messages' = messages
          /\ checkpoints' = checkpoints
          /\ inflight' = inflight
          /\ thread' = thread
          /\ approved' # approved => approved' \in {"True", "False"}]_vars

\* the gate has sent its alert, asked twice and yielded its decision, the
\* conversation still being the user turn and the proposing turn
C29_Witness ==
    /\ pc = "pr_branch"
    /\ Len(alerts) = 1
    /\ prompts = 2
    /\ approved = "False"
    /\ Len(messages) = 2
    /\ HasSensitive(Batch)

\* a node of the graph, or a tool called by tool_node, is running
EngineRunning ==
    pc \in {"agent", "route", "tools_enter", "tools", "gate", "pr_branch", "end"}

\* C30: every step of a running cycle leaves the message list as it was or
\* appends turns at its end: the list before the step is a prefix of the
\* list after it.
C30_HistoryAppendOnly ==
    [][EngineRunning =>
          /\ Len(messages') >= Len(messages)
          /\ SubSeq(messages', 1, Len(messages)) = messages]_vars

\* a finished run whose list grew twice: by the two tool turns of the
\* batch, then by the final assistant turn
C30_Witness ==
    /\ CycleComplete
    /\ Roles(messages) = <<"human", "ai", "tool", "tool", "ai">>
    /\ messages[2].tool_calls # <<>>
    /\ gate = "none"

====
